---- MODULE Spec2Model ----
(***************************************************************************)
(* A model of src/ab_tester.py: the A/B test analyzer.                     *)
(*                                                                         *)
(* Numbers are exact rationals [k |-> "num", n |-> numerator, d |-> den]   *)
(* in lowest terms with d > 0; the float NaN is [k |-> "nan", ...].        *)
(* Strings (group labels, unparsed cells) are sequences of code points.    *)
(***************************************************************************)
EXTENDS Integers, Sequences, FiniteSets, TLC

VARIABLES pc, cols, df, winsor, alpha, n_boot, a, b, stats, lifts, ci,
          res, err, file, ws, wout

vars == <<pc, cols, df, winsor, alpha, n_boot, a, b, stats, lifts, ci,
          res, err, file, ws, wout>>

(***************************************************************************)
(* Bounds of the model.                                                    *)
(***************************************************************************)
MaxRows == 3      \* rows of a dataset handed to check_inputs alone
MaxObs == 4       \* rows of a dataset handed to main
MaxBoot == 2      \* largest --bootstrap value
MaxLen == 4       \* length of a sample handed to winsorize_series alone

(***************************************************************************)
(* Rational arithmetic (the float arithmetic of the code, taken exactly).  *)
(***************************************************************************)
Abs(x) == IF x < 0 THEN -x ELSE x

RECURSIVE Gcd(_, _)
Gcd(x, y) == IF y = 0 THEN x ELSE Gcd(y, x % y)

Rat(n, d) ==
    LET s == IF d < 0 THEN -1 ELSE 1
        g == Gcd(Abs(n), Abs(d))
    IN  [k |-> "num", n |-> (s * n) \div g, d |-> (s * d) \div g]

Int2Rat(n) == [k |-> "num", n |-> n, d |-> 1]
NaN == [k |-> "nan", n |-> 0, d |-> 1]
IsNaN(x) == x.k = "nan"

RAdd(x, y) == Rat(x.n * y.d + y.n * x.d, x.d * y.d)
RSub(x, y) == Rat(x.n * y.d - y.n * x.d, x.d * y.d)
RMul(x, y) == Rat(x.n * y.n, x.d * y.d)
RDiv(x, y) == Rat(x.n * y.d, x.d * y.n)
RLt(x, y) == x.n * y.d < y.n * x.d
RLe(x, y) == x.n * y.d <= y.n * x.d
RSign(x) == IF x.n > 0 THEN 1 ELSE IF x.n < 0 THEN -1 ELSE 0
RFloor(x) == x.n \div x.d
RMin(x, y) == IF RLe(x, y) THEN x ELSE y
RMax(x, y) == IF RLe(x, y) THEN y ELSE x


RECURSIVE RSum(_)
RSum(s) == IF s = <<>> THEN Int2Rat(0) ELSE RAdd(Head(s), RSum(Tail(s)))

\* Series.mean / ndarray.mean of a non-empty sample.
Mean(s) == RDiv(RSum(s), Int2Rat(Len(s)))

(***************************************************************************)
(* The dataset: a sequence of rows [g |-> label, v |-> cell]. A label is a *)
(* string, the empty string being a missing label (read_csv reads an empty *)
(* field as NaN). A cell is a number, a missing value or an unparsed       *)
(* string.                                                                 *)
(***************************************************************************)
NoLabel == <<>>
NumCell(n) == [k |-> "num", n |-> n, txt |-> <<>>]
NaCell == [k |-> "na", n |-> 0, txt |-> <<>>]
StrCell(t) == [k |-> "str", n |-> 0, txt |-> t]

Required == {"group", "metric"}

Datasets(labels, cells, maxRows) ==
    UNION {[1..n -> [g : labels, v : cells]] : n \in 0..maxRows}

\* Python's str comparison: lexicographic by code point.
LabelLess(x, y) ==
    \/ Len(x) < Len(y) /\ \A j \in 1..Len(x) : x[j] = y[j]
    \/ \E j \in 1..Len(x) :
          /\ j <= Len(y)
          /\ x[j] < y[j]
          /\ \A h \in 1..(j - 1) : x[h] = y[h]

(***************************************************************************)
(* Exceptions: the type raised and the head of its message.                *)
(***************************************************************************)
NoErr == [type |-> "none", msg |-> ""]
Exc(type, msg) == [type |-> type, msg |-> msg]

(***************************************************************************)
(* check_inputs                                                            *)
(***************************************************************************)
IsDigit(c) == c \in 48..57

RECURSIVE DigitsValue(_, _)
DigitsValue(t, acc) ==
    IF t = <<>> THEN acc ELSE DigitsValue(Tail(t), 10 * acc + (Head(t) - 48))

\* pd.to_numeric(..., errors="coerce") on one cell: a number stays, a string
\* of digits is parsed, any other string becomes NaN (missing).
ToNumeric(cell) ==
    IF cell.k = "num" THEN cell
    ELSE IF cell.k = "str" /\ cell.txt # <<>> /\ \A j \in 1..Len(cell.txt) : IsDigit(cell.txt[j])
         THEN NumCell(DigitsValue(cell.txt, 0))
    ELSE NaCell

\* df[[group_col, value_col]].dropna(): rows with a missing label or value go.
IsPresent(row) == row.g # NoLabel /\ row.v.k # "na"
DropNa(d) == SelectSeq(d, IsPresent)

Coerce(d) == [j \in 1..Len(d) |-> [g |-> d[j].g, v |-> ToNumeric(d[j].v)]]

\* df[group_col].unique(): the labels that occur.
Unique(d) == {d[j].g : j \in 1..Len(d)}

\* df[group_col].nunique() != 2
WrongGroupCount_lt2(d) == Cardinality(Unique(d)) < 2
WrongGroupCount(d) == Cardinality(Unique(d)) # 2

\* df[group_col].unique() lists the labels in order of first appearance.
GroupOrder_unsorted(d) ==
    LET first(l) == CHOOSE j \in 1..Len(d) : d[j].g = l /\ \A h \in 1..(j - 1) : d[h].g # l
        l1 == d[1].g
        l2 == CHOOSE l \in Unique(d) \ {l1} :
                 \A m \in Unique(d) \ {l1} : first(l) <= first(m)
    IN  <<l1, l2>>

\* groups = sorted(df[group_col].unique()); a_label, b_label = groups[0], groups[1]
GroupOrder(d) ==
    LET first == CHOOSE l \in Unique(d) : \A m \in Unique(d) \ {l} : LabelLess(l, m)
        rest == Unique(d) \ {first}
        second == CHOOSE l \in rest : \A m \in rest \ {l} : LabelLess(l, m)
    IN  <<first, second>>

\* df.loc[df[group_col] == label, value_col].reset_index(drop=True)
ValuesOf(d, label) ==
    LET rows == SelectSeq(d, LAMBDA row : row.g = label)
    IN  [j \in 1..Len(rows) |-> Int2Rat(rows[j].v.n)]

CheckInputs(c, d) ==
    LET none == [err |-> NoErr, a |-> <<>>, b |-> <<>>]
        d1 == DropNa(d)
        d2 == DropNa(Coerce(d1))
        g == GroupOrder(d2)
    IN  IF ~ (Required \subseteq c)
          THEN [none EXCEPT !.err = Exc("ValueError", "Missing required columns")]
        ELSE IF d1 = <<>>
          THEN [none EXCEPT !.err = Exc("ValueError", "No data after dropping NA.")]
        ELSE IF WrongGroupCount(d2)
          THEN [none EXCEPT !.err = Exc("ValueError", "Expected exactly 2 groups")]
        ELSE [err |-> NoErr, a |-> ValuesOf(d2, g[1]), b |-> ValuesOf(d2, g[2])]

(***************************************************************************)
(* Quantiles and winsorize_series                                          *)
(***************************************************************************)
\* Series.quantile(q) / np.quantile(x, q), method "linear", 0 <= q <= 1, on
\* a non-empty x: the value at position q*(n-1) of the sorted values,
\* interpolated linearly between the two neighbouring order statistics.
Quantile_posN(s, q) ==
    LET n == Len(s)
        sorted == SortSeq(s, RLt)
        raw == RMul(q, Int2Rat(n))
        pos == IF RLt(Int2Rat(n - 1), raw) THEN Int2Rat(n - 1) ELSE raw
        j == RFloor(pos)
        gamma == RSub(pos, Int2Rat(j))
        lo == sorted[j + 1]
        hi == sorted[IF j + 2 <= n THEN j + 2 ELSE n]
    IN  RAdd(lo, RMul(gamma, RSub(hi, lo)))

Quantile(s, q) ==
    LET n == Len(s)
        sorted == SortSeq(s, RLt)
        pos == RMul(q, Int2Rat(n - 1))
        j == RFloor(pos)
        gamma == RSub(pos, Int2Rat(j))
        lo == sorted[j + 1]
        hi == sorted[IF j + 2 <= n THEN j + 2 ELSE n]
    IN  RAdd(lo, RMul(gamma, RSub(hi, lo)))

\* Series.clip(lower, upper) on one value.
Clip(x, lower, upper) == RMin(RMax(x, lower), upper)

winsorize_series(s, p) ==
    IF p.n <= 0 THEN s
    ELSE LET lower == Quantile(s, p)
             upper == Quantile(s, RSub(Int2Rat(1), p))
         IN  [j \in 1..Len(s) |-> Clip(s[j], lower, upper)]

(***************************************************************************)
(* The hypothesis tests                                                    *)
(***************************************************************************)
\* Sample variance (ddof = 1) of a sample of at least two values.
Var(s) ==
    LET m == Mean(s)
        sq == [j \in 1..Len(s) |-> RMul(RSub(s[j], m), RSub(s[j], m))]
    IN  RDiv(RSum(sq), Int2Rat(Len(s) - 1))

TNaN == [k |-> "nan", sign |-> 0, sq |-> Int2Rat(0)]

\* st.ttest_ind(x, y, equal_var=False).statistic: (mean(x) - mean(y)) /
\* sqrt(var(x)/nx + var(y)/ny), kept as its sign and its square. With one
\* observation the variance is NaN and so is the statistic; with a zero
\* denominator the division gives NaN (0/0) or a signed infinity.
ttest_ind(x, y) ==
    IF Len(x) < 2 \/ Len(y) < 2 THEN TNaN
    ELSE LET d == RSub(Mean(x), Mean(y))
             s2 == RAdd(RDiv(Var(x), Int2Rat(Len(x))), RDiv(Var(y), Int2Rat(Len(y))))
         IN  IF s2.n = 0
               THEN IF d.n = 0 THEN TNaN
                    ELSE [k |-> "inf", sign |-> RSign(d), sq |-> Int2Rat(0)]
             ELSE [k |-> "num", sign |-> RSign(d), sq |-> RDiv(RMul(d, d), s2)]

\* welch_t_test(a, b): the statistic, and whether the p-value is a number
\* (in [0, 1]) or NaN; the t distribution itself is not modelled.
welch_t_test(x, y) ==
    LET t == ttest_ind(x, y)
    IN  <<t, IF t.k = "nan" THEN "nan" ELSE "number">>

\* st.mannwhitneyu(x, y).statistic: U of the first sample, the pairs with
\* x[i] > y[j] counted 1 and the ties 1/2.
mann_whitney(x, y) ==
    LET pairs == (1..Len(x)) \X (1..Len(y))
        wins == Cardinality({pr \in pairs : RLt(y[pr[2]], x[pr[1]])})
        ties == Cardinality({pr \in pairs : x[pr[1]] = y[pr[2]]})
    IN  Rat(2 * wins + ties, 2)

(***************************************************************************)
(* bootstrap_lift_ci, one iteration and the final quantiles                *)
(***************************************************************************)
\* rng.choice(vals, size=vals.size, replace=True) with the indices drawn.
Resample(vals, idx) == [j \in 1..Len(vals) |-> vals[idx[j]]]

\* The means rng.choice(vals, ...).mean() can take, over all draws.
ResampleMeans(vals) ==
    {Mean(Resample(vals, idx)) : idx \in [1..Len(vals) -> 1..Len(vals)]}

\* The value stored in lifts[i].
LiftOf(a_mean, b_mean) ==
    IF a_mean.n = 0 THEN NaN ELSE RDiv(RSub(b_mean, a_mean), a_mean)

\* lifts[~np.isnan(lifts)]
Retained(l) == SelectSeq(l, LAMBDA x : ~ IsNaN(x))

Half(x) == RDiv(x, Int2Rat(2))

(***************************************************************************)
(* Inputs                                                                  *)
(***************************************************************************)
LabelA == <<65>>
LabelAB == <<65, 66>>
LabelB == <<66>>

\* The unparsable string "x" and the numeric string "2".
TextX == <<120>>
Text2 == <<50>>

CheckLabels == {NoLabel, LabelA, LabelAB, LabelB}
CheckCells == {NumCell(0), NumCell(1), NaCell, StrCell(TextX), StrCell(Text2)}

MainLabels == {LabelA, LabelB}
MainCells == {NumCell(0), NumCell(1), StrCell(TextX)}

Winsors == {Int2Rat(0), Rat(1, 4)}
Alphas == {Rat(1, 20), Rat(3, 2)}

Blank ==
    /\ pc = "main"
    /\ a = <<>> /\ b = <<>> /\ stats = <<>> /\ lifts = <<>> /\ ci = <<>>
    /\ res = <<>> /\ err = NoErr /\ file = <<>>

\* main started on a CSV file and its command line.
Init ==
    /\ Blank
    /\ \/ cols = Required /\ df \in Datasets(MainLabels, MainCells, MaxObs)
       \/ cols \in (SUBSET Required) \ {Required} /\ df = <<>>
    /\ winsor \in Winsors
    /\ alpha \in Alphas
    /\ n_boot \in (-1)..MaxBoot
    /\ ws = <<>> /\ wout = <<>>

(***************************************************************************)
(* main -> analyze_ab, step by step                                        *)
(***************************************************************************)
Raise(e) ==
    /\ pc' = "raised"
    /\ err' = e

\* analyze_ab line 117: a, b = check_inputs(df, group_col, value_col)
CheckStep ==
    /\ pc = "main"
    /\ LET r == CheckInputs(cols, df)
       IN  IF r.err # NoErr
             THEN Raise(r.err) /\ UNCHANGED <<a, b>>
           ELSE pc' = "winsor" /\ a' = r.a /\ b' = r.b /\ UNCHANGED err
    /\ UNCHANGED <<cols, df, winsor, alpha, n_boot, stats, lifts, ci, res, file, ws, wout>>

\* analyze_ab lines 118-120
WinsorStep ==
    /\ pc = "winsor"
    /\ IF winsor.n > 0
         THEN a' = winsorize_series(a, winsor) /\ b' = winsorize_series(b, winsor)
       ELSE UNCHANGED <<a, b>>
    /\ pc' = "tests"
    /\ UNCHANGED <<cols, df, winsor, alpha, n_boot, stats, lifts, ci, res, err, file, ws, wout>>

\* analyze_ab lines 122-127
TestsStep ==
    /\ pc = "tests"
    /\ LET ga == Mean(a)
           gb == Mean(b)
           lift == IF ga.n # 0 THEN RDiv(RSub(gb, ga), ga) ELSE NaN
           w == welch_t_test(a, b)
       IN  stats' = <<[ga |-> ga, gb |-> gb, lift |-> lift,
                       t |-> w[1], tp |-> w[2], u |-> mann_whitney(a, b)]>>
    /\ pc' = "boot"
    /\ UNCHANGED <<cols, df, winsor, alpha, n_boot, a, b, lifts, ci, res, err, file, ws, wout>>

\* bootstrap_lift_ci lines 90-93: np.empty(n_boot) refuses a negative size.
BootAlloc ==
    /\ pc = "boot"
    /\ IF n_boot < 0
         THEN Raise(Exc("ValueError", "negative dimensions are not allowed"))
       ELSE pc' = "loop" /\ UNCHANGED err
    /\ lifts' = <<>>
    /\ UNCHANGED <<cols, df, winsor, alpha, n_boot, a, b, stats, ci, res, file, ws, wout>>

\* bootstrap_lift_ci lines 94-102: one iteration, the generator's draws free.
BootIter ==
    /\ pc = "loop"
    /\ Len(lifts) < n_boot
    /\ \E a_mean \in ResampleMeans(a), b_mean \in ResampleMeans(b) :
          lifts' = Append(lifts, LiftOf(a_mean, b_mean))
    /\ UNCHANGED <<pc, cols, df, winsor, alpha, n_boot, a, b, stats, ci, res, err, file, ws, wout>>

LoopDone == pc = "loop" /\ Len(lifts) >= n_boot

\* np.quantile refuses a quantile outside [0, 1] before looking at the data.
BadQuantile == Half(alpha).n < 0 \/ RLt(Int2Rat(1), Half(alpha))

\* bootstrap_lift_ci lines 103-106 with lift values left.
BootQuantile ==
    /\ LoopDone
    /\ BadQuantile \/ Retained(lifts) # <<>>
    /\ LET q == Half(alpha)
           r == Retained(lifts)
       IN  IF BadQuantile
             THEN Raise(Exc("ValueError", "Quantiles must be in the range [0, 1]"))
                  /\ UNCHANGED ci
           ELSE /\ ci' = <<Quantile(r, q), Quantile(r, RSub(Int2Rat(1), q))>>
                /\ pc' = "assemble"
                /\ UNCHANGED err
    /\ UNCHANGED <<cols, df, winsor, alpha, n_boot, a, b, stats, lifts, res, file, ws, wout>>

\* bootstrap_lift_ci lines 103-106 with no lift value left: np.quantile of an
\* empty array gives NaN in some numpy releases ...
BootQuantileEmptyNaN ==
    /\ LoopDone
    /\ ~ BadQuantile
    /\ Retained(lifts) = <<>>
    /\ ci' = <<NaN, NaN>>
    /\ pc' = "assemble"
    /\ UNCHANGED <<cols, df, winsor, alpha, n_boot, a, b, stats, lifts, res, err, file, ws, wout>>

\* ... and raises IndexError in the others.
BootQuantileEmptyRaise ==
    /\ LoopDone
    /\ ~ BadQuantile
    /\ Retained(lifts) = <<>>
    /\ Raise(Exc("IndexError", "index -1 is out of bounds for axis 0 with size 0"))
    /\ UNCHANGED <<cols, df, winsor, alpha, n_boot, a, b, stats, lifts, ci, res, file, ws, wout>>

\* analyze_ab lines 131-148
ABResult ==
    [group_a_mean |-> stats[1].ga, group_b_mean |-> stats[1].gb,
     group_a_n |-> Len(a), group_b_n |-> Len(b),
     lift |-> stats[1].lift,
     welch_t |-> stats[1].t, welch_p |-> stats[1].tp,
     mw_u |-> stats[1].u,
     ci_low |-> ci[1], ci_high |-> ci[2],
     alpha |-> alpha, winsor |-> winsor]

Assemble ==
    /\ pc = "assemble"
    /\ res' = <<ABResult>>
    /\ pc' = "report"
    /\ UNCHANGED <<cols, df, winsor, alpha, n_boot, a, b, stats, lifts, ci, err, file, ws, wout>>

\* format_report: the figures the Markdown shows.
format_report(r) ==
    [n |-> <<r.group_a_n, r.group_b_n>>,
     mean |-> <<r.group_a_mean, r.group_b_mean>>,
     lift |-> r.lift, t |-> r.welch_t, p |-> r.welch_p, u |-> r.mw_u,
     ci |-> <<r.ci_low, r.ci_high>>, alpha |-> r.alpha, winsor |-> r.winsor]

\* main line 191 has returned: where lines 192-194 run.
CanWrite_always == pc \in {"report", "raised"}
CanWrite == pc = "report"

\* main lines 192-197: the report of the result held in res goes to the file.
WriteReport ==
    /\ CanWrite
    /\ file' = <<[j \in 1..Len(res) |-> format_report(res[j])]>>
    /\ pc' = "done"
    /\ UNCHANGED <<cols, df, winsor, alpha, n_boot, a, b, stats, lifts, ci, res, err, ws, wout>>

Next ==
    \/ CheckStep
    \/ WinsorStep
    \/ TestsStep
    \/ BootAlloc
    \/ BootIter
    \/ BootQuantile
    \/ BootQuantileEmptyNaN
    \/ BootQuantileEmptyRaise
    \/ Assemble
    \/ WriteReport

Spec == Init /\ [][Next]_vars

(***************************************************************************)
(* main with the default --alpha 0.05 and --winsor 0.0                     *)
(***************************************************************************)
InitDefaults ==
    /\ Blank
    /\ \/ cols = Required /\ df \in Datasets(MainLabels, MainCells, MaxObs)
       \/ cols \in (SUBSET Required) \ {Required} /\ df = <<>>
    /\ winsor = Int2Rat(0)
    /\ alpha = Rat(1, 20)
    /\ n_boot \in (-1)..MaxBoot
    /\ ws = <<>> /\ wout = <<>>

SpecDefaults == InitDefaults /\ [][Next]_vars

(***************************************************************************)
(* check_inputs called on its own                                          *)
(***************************************************************************)
InitCheck ==
    /\ Blank
    /\ cols = Required
    /\ df \in Datasets(CheckLabels, CheckCells, MaxRows)
    /\ winsor = Int2Rat(0)
    /\ alpha = Rat(1, 20)
    /\ n_boot = 0
    /\ ws = <<>> /\ wout = <<>>

NextCheck == CheckStep

SpecCheck == InitCheck /\ [][NextCheck]_vars

(***************************************************************************)
(* winsorize_series called on its own, on a sample and then on its result  *)
(***************************************************************************)
SampleValues == {Int2Rat(0), Int2Rat(1), Int2Rat(3)}
Proportions == {Int2Rat(0), Rat(1, 10), Rat(1, 4), Rat(1, 3), Rat(2, 5)}

InitWinsor ==
    /\ pc = "winsorize"
    /\ cols = Required /\ df = <<>>
    /\ a = <<>> /\ b = <<>> /\ stats = <<>> /\ lifts = <<>> /\ ci = <<>>
    /\ res = <<>> /\ err = NoErr /\ file = <<>>
    /\ alpha = Rat(1, 20)
    /\ n_boot = 0
    /\ winsor \in Proportions
    /\ ws \in UNION {[1..n -> SampleValues] : n \in 1..MaxLen}
    /\ wout = <<>>

WinsorizeCall ==
    /\ pc = "winsorize"
    /\ Len(wout) < 2
    /\ wout' = Append(wout, winsorize_series(IF wout = <<>> THEN ws ELSE wout[Len(wout)], winsor))
    /\ UNCHANGED <<pc, cols, df, winsor, alpha, n_boot, a, b, stats, lifts, ci, res, err, file, ws>>

NextWinsor == WinsorizeCall

SpecWinsor == InitWinsor /\ [][NextWinsor]_vars

(***************************************************************************)
(* Vocabulary of the properties                                            *)
(***************************************************************************)
\* The rows that survive cleaning: label present, value numeric.
NumericRows(d) ==
    SelectSeq(d, LAMBDA row : row.g # NoLabel /\ ToNumeric(row.v).k = "num")

\* The values of the cleaned rows that carry a label, in row order.
CleanValues(d, label) ==
    LET rows == SelectSeq(NumericRows(d), LAMBDA row : row.g = label)
    IN  [j \in 1..Len(rows) |-> Int2Rat(ToNumeric(rows[j].v).n)]

LabelsOf(d) == {d[j].g : j \in 1..Len(d)}

Perms(n) == {f \in [1..n -> 1..n] : \A x, y \in 1..n : f[x] = f[y] => x = y}
Permute(d, f) == [j \in 1..Len(d) |-> d[f[j]]]
Sorted(s) == SortSeq(s, RLt)

Accepted == pc = "winsor"
Returned == pc # "main"
AfterTests == pc \in {"boot", "loop", "assemble", "report", "done"}

(***************************************************************************)
(* The error kinds of the design, as the code's exceptions realise them.   *)
(***************************************************************************)
ErrorKind(e) ==
    IF e.type = "none" THEN "none"
    ELSE IF e.type = "ValueError" /\ e.msg = "Missing required columns" THEN "SchemaError"
    ELSE IF e.type = "ValueError" /\ e.msg = "No data after dropping NA." THEN "EmptyDatasetError"
    ELSE IF e.type = "ValueError" /\ e.msg = "Expected exactly 2 groups" THEN "GroupCardinalityError"
    ELSE IF e.type = "ValueError" THEN "InvalidConfigError"
    ELSE e.type

(***************************************************************************)
(* C1: whenever check_inputs accepts a dataset, the first sample holds the *)
(* values of the cleaned rows with the smaller label and the second those  *)
(* of the rows with the larger label; and every permutation of the rows is *)
(* accepted too and gives the same two samples up to order.                *)
(***************************************************************************)
C1_SmallerLabelIsA ==
    Accepted =>
        /\ \E la, lb \in LabelsOf(NumericRows(df)) :
              /\ LabelLess(la, lb)
              /\ a = CleanValues(df, la)
              /\ b = CleanValues(df, lb)
        /\ \A f \in Perms(Len(df)) :
              LET r == CheckInputs(cols, Permute(df, f))
              IN  /\ r.err = NoErr
                  /\ Sorted(r.a) = Sorted(a)
                  /\ Sorted(r.b) = Sorted(b)

\* A dataset whose first row carries the larger label, accepted, with
\* samples that differ.
C1_Witness ==
    /\ Accepted
    /\ df[1].g = LabelB
    /\ LabelA \in LabelsOf(NumericRows(df))
    /\ a = CleanValues(df, LabelA)
    /\ Sorted(a) # Sorted(b)

(***************************************************************************)
(* C5 as stated: with both columns present (and some row with neither     *)
(* missing), a group column holding a number of distinct non-missing       *)
(* labels other than 2 makes check_inputs raise the group-cardinality      *)
(* error, whatever the value column holds.                                 *)
(***************************************************************************)
C5_AsStated ==
    (Returned /\ cols = Required /\ DropNa(df) # <<>>
       /\ Cardinality(LabelsOf(df) \ {NoLabel}) # 2)
        => (pc = "raised" /\ ErrorKind(err) = "GroupCardinalityError")

(***************************************************************************)
(* C5 amended: with both columns present and at least one row with neither *)
(* column missing, a number of distinct labels other than 2 among the rows *)
(* that survive cleaning makes check_inputs raise the group-cardinality    *)
(* error and return no samples.                                            *)
(***************************************************************************)
C5_CardinalityAfterCleaning ==
    (Returned /\ cols = Required /\ DropNa(df) # <<>>
       /\ Cardinality(LabelsOf(NumericRows(df))) # 2)
        => (pc = "raised" /\ ErrorKind(err) = "GroupCardinalityError"
              /\ a = <<>> /\ b = <<>>)

\* Three distinct labels survive cleaning and the call has raised.
C5_Witness ==
    /\ pc = "raised"
    /\ Cardinality(LabelsOf(NumericRows(df))) = 3
    /\ ErrorKind(err) = "GroupCardinalityError"

(***************************************************************************)
(* C6: when there are rows with both columns present and every value is    *)
(* unparsable as a number, check_inputs fails with the empty-dataset       *)
(* error.                                                                  *)
(***************************************************************************)
C6_EmptyAfterCoercion ==
    (Returned /\ cols = Required /\ DropNa(df) # <<>> /\ NumericRows(df) = <<>>)
        => (pc = "raised" /\ ErrorKind(err) = "EmptyDatasetError")

(***************************************************************************)
(* C2: with at least 2 observations in each sample and a non-zero standard *)
(* error, the welch_t of the ABResult has the sign of mean_B - mean_A.     *)
(***************************************************************************)
C2_WelchSignIsBMinusA ==
    (res # <<>> /\ Len(a) >= 2 /\ Len(b) >= 2 /\ res[1].welch_t.k = "num")
        => res[1].welch_t.sign = RSign(RSub(res[1].group_b_mean, res[1].group_a_mean))

(***************************************************************************)
(* C4: when one of the two cleaned groups has fewer than 2 observations,   *)
(* analyze_ab fails at the hypothesis tests with DegenerateSampleError: it *)
(* never gets past them and never returns an ABResult.                     *)
(***************************************************************************)
C4_OneObservationRaises ==
    ((a # <<>> /\ b # <<>>) /\ (Len(a) < 2 \/ Len(b) < 2))
        => /\ ~ AfterTests
           /\ res = <<>>
           /\ (stats # <<>> => pc = "raised" /\ ErrorKind(err) = "DegenerateSampleError")

(***************************************************************************)
(* C7: every iteration whose resampled control mean is 0 is left out of    *)
(* the lift distribution, and when fewer than 2 lift values remain after   *)
(* a loop of at least one iteration, bootstrap_lift_ci fails with          *)
(* InsufficientBootstrapSamplesError instead of returning bounds.          *)
(***************************************************************************)
C7_TooFewLiftsRaises ==
    (n_boot >= 1 /\ Len(lifts) = n_boot /\ pc # "loop" /\ Len(Retained(lifts)) < 2)
        => /\ pc = "raised"
           /\ ErrorKind(err) = "InsufficientBootstrapSamplesError"
           /\ ci = <<>>

(***************************************************************************)
(* C8: the bounds bootstrap_lift_ci returns as numbers satisfy             *)
(* ci_low <= ci_high, and so do those of every ABResult.                   *)
(***************************************************************************)
C8_LowAtMostHigh ==
    /\ (ci # <<>> /\ ~ IsNaN(ci[1]) /\ ~ IsNaN(ci[2])) => RLe(ci[1], ci[2])
    /\ (res # <<>> /\ ~ IsNaN(res[1].ci_low) /\ ~ IsNaN(res[1].ci_high))
          => RLe(res[1].ci_low, res[1].ci_high)

(***************************************************************************)
(* C9: the report file is written only after analyze_ab has returned a     *)
(* complete ABResult, and holds the report of that result; once an error   *)
(* is raised the run has ended with it, there is no ABResult and the file  *)
(* is untouched.                                                           *)
(***************************************************************************)
C9_ReportOnlyAfterResult ==
    /\ file # <<>> =>
          /\ res # <<>> /\ err = NoErr
          /\ file[1] = <<format_report(res[1])>>
    /\ res # <<>> =>
          /\ stats # <<>> /\ ci # <<>> /\ Len(lifts) = n_boot
          /\ res[1] = ABResult
    /\ err # NoErr =>
          /\ pc = "raised" /\ res = <<>> /\ file = <<>>
          /\ ~ ENABLED Next

\* The bootstrap has raised after the tests were computed: nothing returned,
\* nothing written.
C9_Witness ==
    /\ pc = "raised"
    /\ stats # <<>>
    /\ res = <<>>
    /\ file = <<>>

(***************************************************************************)
(* C10: with n_boot <= 0, bootstrap_lift_ci and analyze_ab fail with       *)
(* InvalidConfigError before any resampling; no confidence bounds and no   *)
(* ABResult are ever returned.                                             *)
(***************************************************************************)
C10_NonPositiveNBootRaises ==
    n_boot <= 0 =>
        /\ lifts = <<>> /\ ci = <<>> /\ res = <<>>
        /\ (pc = "raised" /\ stats # <<>>) => ErrorKind(err) = "InvalidConfigError"

(***************************************************************************)
(* C3 as stated: winsorize_series is idempotent, for every non-empty       *)
(* sample and every proportion p in [0, 0.5).                              *)
(***************************************************************************)
C3_Idempotent ==
    Len(wout) = 2 => wout[2] = wout[1]

\* The position p*(n-1) of the p quantile among the order statistics.
LowerPosition == RMul(winsor, Int2Rat(Len(ws) - 1))

(***************************************************************************)
(* C3 amended: winsorize_series is idempotent whenever the quantile        *)
(* positions p*(n-1) and (1-p)*(n-1) are whole numbers, so that both       *)
(* clipping bounds are order statistics of the sample (p = 0 included);    *)
(* for the other p a second application keeps the length and stays within  *)
(* the bounds of the first.                                                *)
(***************************************************************************)
C3_IdempotentAtOrderStatistics ==
    Len(wout) = 2 =>
        /\ LowerPosition.d = 1 => wout[2] = wout[1]
        /\ Len(wout[2]) = Len(ws)
        /\ winsor.n > 0 =>
              \A j \in 1..Len(ws) :
                  /\ RLe(Quantile(ws, winsor), wout[2][j])
                  /\ RLe(wout[2][j], Quantile(ws, RSub(Int2Rat(1), winsor)))

\* A sample of several values that the first application changes, with
\* p > 0 and whole quantile positions, winsorized twice.
C3_Witness ==
    /\ Len(wout) = 2
    /\ winsor.n > 0
    /\ Len(ws) > 1
    /\ LowerPosition.d = 1
    /\ wout[1] # ws
    /\ wout[2] = wout[1]

====
